---- MODULE Spec2Model ----
(***************************************************************************)
(* The up-down worker (src/src/lib.rs): an edge request handler that       *)
(* probes a caller-supplied URL and answers UP or DOWN, behind a response  *)
(* cache.  One request handler runs per incoming request; the handlers     *)
(* share only the cache.  A handler is cut at its suspension points        *)
(* (cache.get, check_domain, the probe race, the detached cache.put).      *)
(***************************************************************************)
EXTENDS Naturals, Sequences, FiniteSets, TLC

\* ------------------------------------------------------------------ bounds

\* Number of requests the model follows (each runs the handler once).
NumReq == 2

Requests == 1..NumReq

\* ------------------------------------------------------------------ options

\* Option<T>: None is the empty sequence, Some(v) the one-element sequence.
None == <<>>

Some(v) == <<v>>

IsSome(o) == o # None

Unwrap(o) == o[1]

\* ------------------------------------------------------------------ strings

\* str::starts_with
StartsWith(s, p) == Len(s) >= Len(p) /\ SubSeq(s, 1, Len(p)) = p

\* str::find from position i on: the index of the first occurrence, 0 if none.
RECURSIVE Find(_, _, _)
Find(s, p, i) ==
    IF i + Len(p) - 1 > Len(s) THEN 0
    ELSE IF SubSeq(s, i, i + Len(p) - 1) = p THEN i
    ELSE Find(s, p, i + 1)

\* The string without its first n characters.
Drop(s, n) == SubSeq(s, n + 1, Len(s))

\* The string without its leading slashes.
RECURSIVE StripSlashes(_)
StripSlashes(s) == IF StartsWith(s, "/") THEN StripSlashes(Drop(s, 1)) ELSE s

\* All characters of s are decimal digits.
RECURSIVE AllDigits(_)
AllDigits(s) ==
    \/ s = ""
    \/ /\ SubSeq(s, 1, 1) \in {"0", "1", "2", "3", "4", "5", "6", "7", "8", "9"}
       /\ AllDigits(Drop(s, 1))

DigitValue(c) ==
    CASE c = "0" -> 0 [] c = "1" -> 1 [] c = "2" -> 2 [] c = "3" -> 3
      [] c = "4" -> 4 [] c = "5" -> 5 [] c = "6" -> 6 [] c = "7" -> 7
      [] c = "8" -> 8 [] c = "9" -> 9

\* The value of a digit string, most significant digit first.
RECURSIVE DecimalValue(_)
DecimalValue(s) ==
    IF s = "" THEN 0
    ELSE 10 * DecimalValue(SubSeq(s, 1, Len(s) - 1)) + DigitValue(SubSeq(s, Len(s), Len(s)))

\* ------------------------------------------------------------------ URLs

SpecialSchemes == {"http", "https"}

\* Url::parse on an absolute URL string: Ok(scheme, host, path) or Err.  A string
\* without a scheme is a relative URL and has no base to resolve against; a
\* special scheme needs a non-empty host and has "/" as its empty path.
ParseUrl(s) ==
    LET c == Find(s, ":", 1)
        sl == Find(s, "/", 1)
        scheme == SubSeq(s, 1, c - 1)
        rest == Drop(s, c)
        auth == IF scheme \in SpecialSchemes THEN StripSlashes(rest) ELSE Drop(rest, 2)
        e == Find(auth, "/", 1)
        host == IF e = 0 THEN auth ELSE SubSeq(auth, 1, e - 1)
        path == IF e = 0 THEN "" ELSE Drop(auth, e - 1)
    IN  IF c <= 1 \/ (sl # 0 /\ sl < c) THEN [ok |-> FALSE, url |-> None]
        ELSE IF scheme \in SpecialSchemes THEN
            IF host = "" THEN [ok |-> FALSE, url |-> None]
            ELSE [ok |-> TRUE,
                  url |-> Some([scheme |-> scheme, host |-> Some(host),
                                path |-> IF path = "" THEN "/" ELSE path])]
        ELSE IF StartsWith(rest, "//") THEN
            [ok |-> TRUE, url |-> Some([scheme |-> scheme, host |-> Some(host), path |-> path])]
        ELSE [ok |-> TRUE, url |-> Some([scheme |-> scheme, host |-> None, path |-> rest])]

\* Url::to_string (the serialization of a parsed URL).
UrlToString(u) ==
    IF IsSome(u.host) THEN u.scheme \o "://" \o Unwrap(u.host) \o u.path
    ELSE u.scheme \o ":" \o u.path

\* The public suffixes the model knows; any other last label is a suffix by the
\* list's default rule "*".
PublicSuffixes == {"com", "org", "uk", "co.uk"}

\* The positions before which a dot-separated suffix of host starts (0: the whole).
LabelStarts(host) == {0} \cup {i \in 1..Len(host) : SubSeq(host, i, i) = "."}

SetMin(S) == CHOOSE x \in S : \A y \in S : x <= y

SetMax(S) == CHOOSE x \in S : \A y \in S : x >= y

\* psl::domain_str: the registrable domain of host (its public suffix plus one
\* label), None when host is itself a public suffix.
domain_str(host) ==
    LET P == LabelStarts(host)
        M == {i \in P : Drop(host, i) \in PublicSuffixes}
        suffix == IF M # {} THEN SetMin(M) ELSE SetMax(P)
    IN  IF suffix = 0 THEN None
        ELSE Some(Drop(host, SetMax({j \in P : j < suffix})))

\* ------------------------------------------------------------------ inputs

\* The value of the API_KEY secret.
secret_api_key == "k1"

\* What a request may carry in its x-api-key header.
ApiKeys == {None, Some("k1"), Some("k0")}

Methods == {"GET", "POST", "PUT"}

\* What req.json / req.query gives: Ok(InputUrl) for these raw url strings, or Err.
RawUrls == {"x.com", "https://x.com", "http://s.x.co.uk", "https://co.uk", "httpx.com", "httpx:y"}

Inputs == [ok : {TRUE}, url : RawUrls, e : {""}]
              \cup {[ok |-> FALSE, url |-> "", e |-> "missing field url"]}

\* What the CACHE_TTL_SECONDS variable may hold.
CacheTtlVars == {None, Some("90")}

\* What an origin may answer to a probe's GET: a response with a status code, or
\* a transport error.
StatusCodes == {200, 399, 400, 500}

FetchReplies == [ok : {TRUE}, code : StatusCodes, e : {""}]
                    \cup {[ok |-> FALSE, code |-> 0, e |-> "connection refused"]}

\* What the DNS endpoint may answer: nothing (the call fails), or a body that is
\* malformed JSON, a JSON array, or a JSON object with or without a Status.
JsonStatus == {None, Some([u64 |-> FALSE, n |-> 0])}
                  \cup {Some([u64 |-> TRUE, n |-> n]) : n \in {0, 2, 3}}

DnsReplies == {[sent |-> FALSE, json |-> "", Status |-> None],
               [sent |-> TRUE, json |-> "malformed", Status |-> None],
               [sent |-> TRUE, json |-> "array", Status |-> None]}
                  \cup [sent : {TRUE}, json : {"object"}, Status : JsonStatus]

\* ------------------------------------------------------------------ responses

\* Headers::set on a header map (a function from names to values).
SetHeader(h, n, v) == [x \in DOMAIN h \cup {n} |-> IF x = n THEN v ELSE h[x]]

NoHeaders == [x \in {} |-> ""]

HasHeader(h, n) == n \in DOMAIN h

NoJson == [requested_url |-> "", results |-> <<>>]

\* Response::error(msg, status): a plain-text response.
ResponseError(msg, status) ==
    [kind |-> "response", status |-> status, text |-> msg, json |-> NoJson,
     headers |-> NoHeaders]

\* Response::builder().with_headers(headers).from_json(value): HTTP 200, a JSON body.
ResponseFromJson(headers, value) ==
    [kind |-> "response", status |-> 200, text |-> "", json |-> value,
     headers |-> SetHeader(headers, "content-type", "application/json")]

\* The handler returning Err(e): no response is built.
HandlerErr(msg) ==
    [kind |-> "error", status |-> 0, text |-> msg, json |-> NoJson, headers |-> NoHeaders]

\* The handler panicking (an unwrap on None): the request is aborted.
HandlerPanic ==
    [kind |-> "panic", status |-> 0, text |-> "", json |-> NoJson, headers |-> NoHeaders]

\* ------------------------------------------------------------------ the handler's pure steps

\* lib.rs 51-53: a raw url that does not start with "http" gets "https://" in front.
Normalize(raw) == IF ~StartsWith(raw, "http") THEN "https://" \o raw ELSE raw

DefaultTtl == 600

\* lib.rs 108-112: CACHE_TTL_SECONDS parsed as a u32, 600 when unset or unparsable.
\* Digit strings of up to 9 digits are all u32 values; longer ones (which may
\* exceed u32::MAX = 4294967295) are outside the values TLC's integers hold and
\* outside CacheTtlVars.
CacheTtl(var) ==
    IF IsSome(var) /\ Unwrap(var) # "" /\ AllDigits(Unwrap(var)) /\ Len(Unwrap(var)) < 10
    THEN DecimalValue(Unwrap(var))
    ELSE DefaultTtl

\* Candidates without the unique_target check: the registrable domain is always
\* a second candidate.
CandidatesNoDedup(u) ==
    LET host == Unwrap(u.host)
        host_url == u.scheme \o "://" \o host
        hostProbes == <<[url |-> host_url, probe_type |-> "host"]>>
        domain == domain_str(host)
        domain_url == u.scheme \o "://" \o Unwrap(domain)
    IN  IF IsSome(domain)
        THEN Append(hostProbes, [url |-> domain_url, probe_type |-> "domain"])
        ELSE hostProbes

\* lib.rs 81-91: the probes of a URL with a host: scheme://host, then
\* scheme://registrable-domain unless that string is already in unique_target.
Candidates(u) ==
    LET host == Unwrap(u.host)
        host_url == u.scheme \o "://" \o host
        hostProbes == <<[url |-> host_url, probe_type |-> "host"]>>
        domain == domain_str(host)
        domain_url == u.scheme \o "://" \o Unwrap(domain)
    IN  IF IsSome(domain) /\ domain_url \notin {host_url}
        THEN Append(hostProbes, [url |-> domain_url, probe_type |-> "domain"])
        ELSE hostProbes

\* A range check without its upper end.
IsUpCodeNoUpper(code) == 200 <= code

\* lib.rs 151: (200..400).contains(&status_code)
IsUpCode(code) == 200 <= code /\ code < 400

\* lib.rs 148-172: the fetch future's value once the HTTP call has completed.
ProbeFetched(url, probe_type, reply) ==
    IF reply.ok
    THEN [probe_type |-> probe_type, url |-> url,
          status |-> IF IsUpCode(reply.code) THEN "UP" ELSE "DOWN",
          status_code |-> Some(reply.code), status_text |-> ""]
    ELSE [probe_type |-> probe_type, url |-> url, status |-> "DOWN",
          status_code |-> None, status_text |-> "Fetch to origin error: " \o reply.e]

TimeoutText == "Request to origin timed-out after 60 secs."

\* A timeout reported as the transport error of the aborted HTTP call.
ProbeTimedOutAsError(url, probe_type) ==
    [probe_type |-> probe_type, url |-> url, status |-> "DOWN",
     status_code |-> None, status_text |-> "Fetch to origin error: aborted"]

\* lib.rs 186-192: the probe's value when the delay future wins the select.
ProbeTimedOut(url, probe_type) ==
    [probe_type |-> probe_type, url |-> url, status |-> "DOWN",
     status_code |-> None, status_text |-> TimeoutText]

\* lib.rs 209-217: check_domain's value for an answer of the DNS endpoint: Err when
\* the send or the JSON parse fails, a panic when an unwrap meets None (the body
\* is no object, has no Status, or its Status is no u64), else Ok(Status).
check_domain(reply) ==
    IF ~reply.sent \/ reply.json = "malformed" THEN [tag |-> "Err", status |-> 0]
    ELSE IF reply.json # "object" \/ reply.Status = None \/ ~Unwrap(reply.Status).u64
    THEN [tag |-> "Panic", status |-> 0]
    ELSE [tag |-> "Ok", status |-> Unwrap(reply.Status).n]

\* A gate that is never closed.
GateRejectsNever(res) == FALSE

\* A gate that is closed unless the check ran and gave status 0.
GateRejectsUnlessOk(res) == ~(res.tag = "Ok" /\ res.status = 0)

\* lib.rs 72-73: the gate rejects the request: the check ran and its status is not 0.
GateRejects(res) == res.tag = "Ok" /\ res.status # 0

\* lib.rs 74-77
DomainCheckFailed(status) ==
    ResponseError("Request does not pass domain check [" \o ToString(status) \o "].", 400)

\* A miss response without its Cache-Control header.
MissResponseNoCacheControl(u, res, cache_ttl) ==
    ResponseFromJson(
        SetHeader(NoHeaders, "X-Worker-Cache", "MISS"),
        [requested_url |-> UrlToString(u), results |-> res])

\* lib.rs 103-120: the miss response for the results of the probe loop.
MissResponse(u, res, cache_ttl) ==
    ResponseFromJson(
        SetHeader(SetHeader(NoHeaders, "Cache-Control", "max-age=" \o ToString(cache_ttl)),
                  "X-Worker-Cache", "MISS"),
        [requested_url |-> UrlToString(u), results |-> res])

\* A hit that returns the cached response as it was stored.
HitResponseAsStored(cached) == cached

\* lib.rs 60-62: the cached response under a copy of its headers with
\* X-Worker-Cache set to HIT.
HitResponse(cached) ==
    [cached EXCEPT !.headers = SetHeader(cached.headers, "X-Worker-Cache", "HIT")]

\* A loop that starts every remaining candidate's probe at once.
ProbesStartedAll(k, n) == k..n

\* lib.rs 94-95: the probes put in flight when the loop reaches candidate k of n:
\* the loop awaits each probe before it goes on.
ProbesStarted(k, n) == {k}

\* A loop without the break on UP.
LoopContinuesNoBreak(k, res, cands) == k <= Len(cands)

\* lib.rs 94, 96-100: the loop goes on to candidate k of cands after the results
\* res: a candidate is left and the last result, if any, is not UP.
LoopContinues(k, res, cands) ==
    k <= Len(cands) /\ (res = <<>> \/ res[Len(res)].status # "UP")

\* ------------------------------------------------------------------ state

VARIABLES
    pc,          \* per request: where its handler stands
    req,         \* per request: Option of its x-api-key header and method (until cache.get returns)
    input,       \* per request: the raw url string of the request (line 47)
    target_url,  \* per request: Option of the parsed Url (line 55)
    cache_key,   \* per request: the cache key (line 56)
    probes,      \* per request: the (url, probe_type) candidates (line 66)
    results,     \* per request: the ProbeResults pushed so far (line 93)
    inflight,    \* per request: the indices of the probes whose select is pending
    fetched,     \* per request: per result, Some(reply) of the HTTP call, None if the delay won
    got,         \* per request: Option of the store's answer to cache.get (until check_domain returns)
    dns,         \* per request: Option of the DNS endpoint's answer to check_domain
    response,    \* per request: Option of the miss response built (line 118)
    out,         \* per request: Option of what the handler returned
    log,         \* per request: the calls the handler made on its collaborators
    before,      \* per request: the requests that had returned when it arrived
    cache,       \* the cache store: key -> stored response
    wait_until,  \* the detached cache.put futures not yet run
    ttl_var      \* the CACHE_TTL_SECONDS variable of the deployment

vars == <<pc, req, input, target_url, cache_key, probes, results, inflight, fetched, got, dns,
          response, out, log, before, cache, wait_until, ttl_var>>

reqVars == <<pc, req, input, target_url, cache_key, probes, results, inflight, fetched, got, dns,
             response, out, log, before>>

Event(op, arg) == [op |-> op, arg |-> arg]

NoCache == [k \in {} |-> HandlerPanic]

Init ==
    /\ pc = [r \in Requests |-> "idle"]
    /\ req = [r \in Requests |-> None]
    /\ input = [r \in Requests |-> ""]
    /\ target_url = [r \in Requests |-> None]
    /\ cache_key = [r \in Requests |-> ""]
    /\ probes = [r \in Requests |-> <<>>]
    /\ results = [r \in Requests |-> <<>>]
    /\ inflight = [r \in Requests |-> {}]
    /\ fetched = [r \in Requests |-> <<>>]
    /\ got = [r \in Requests |-> None]
    /\ dns = [r \in Requests |-> None]
    /\ response = [r \in Requests |-> None]
    /\ out = [r \in Requests |-> None]
    /\ log = [r \in Requests |-> <<>>]
    /\ before = [r \in Requests |-> {}]
    /\ cache = NoCache
    /\ wait_until = {}
    /\ ttl_var \in CacheTtlVars

\* The handler of r returns v (or is aborted): the request is over, the DNS
\* answer it held is dropped.
Finish(r, v) ==
    /\ pc' = [pc EXCEPT ![r] = "done"]
    /\ out' = [out EXCEPT ![r] = Some(v)]
    /\ dns' = [dns EXCEPT ![r] = None]
    /\ before' = [before EXCEPT ![r] = {}]

\* ------------------------------------------------------------------ fetch, lines 30-56

\* A gate that turns away only a request without the header.
UnauthorizedOnlyAbsent(req_api_key) == req_api_key = None

\* lib.rs 36: the x-api-key header is absent or is not the secret.
Unauthorized(req_api_key) == req_api_key = None \/ Unwrap(req_api_key) # secret_api_key

\* A request arrives and its handler runs to the cache lookup: the API key, the
\* method, the input, the normalization and the parse of the url.  Requests are
\* numbered in their order of arrival.
FetchStart(r) ==
    /\ pc[r] = "idle"
    /\ \A q \in Requests : q < r => pc[q] # "idle"
    /\ \E req_api_key \in ApiKeys, method \in Methods, in \in Inputs :
        LET parsed == ParseUrl(Normalize(in.url)) IN
        /\ req' = [req EXCEPT ![r] = Some([api_key |-> req_api_key, method |-> method])]
        /\ IF Unauthorized(req_api_key) THEN
               /\ Finish(r, ResponseError("Unauthorized", 401))
               /\ UNCHANGED <<input, target_url, cache_key, log>>
           ELSE IF method \notin {"POST", "GET"} THEN
               /\ Finish(r, ResponseError("Method not allowed. Use GET or POST.", 405))
               /\ UNCHANGED <<input, target_url, cache_key, log>>
           ELSE IF ~in.ok THEN
               /\ Finish(r, ResponseError(in.e, 400))
               /\ UNCHANGED <<input, target_url, cache_key, log>>
           ELSE IF ~parsed.ok THEN
               /\ Finish(r, HandlerErr("invalid url"))
               /\ input' = [input EXCEPT ![r] = in.url]
               /\ UNCHANGED <<target_url, cache_key, log>>
           ELSE
               /\ pc' = [pc EXCEPT ![r] = "cache_get"]
               /\ input' = [input EXCEPT ![r] = in.url]
               /\ target_url' = [target_url EXCEPT ![r] = parsed.url]
               /\ cache_key' = [cache_key EXCEPT ![r] = UrlToString(Unwrap(parsed.url))]
               /\ log' = [log EXCEPT ![r] = Append(@, Event("cache.get", UrlToString(Unwrap(parsed.url))))]
               /\ before' = [before EXCEPT ![r] = {q \in Requests : pc[q] = "done"}]
               /\ UNCHANGED <<out, dns>>
    /\ UNCHANGED <<probes, results, inflight, fetched, got, response, cache, wait_until, ttl_var>>

\* ------------------------------------------------------------------ fetch, lines 58-72

\* A lookup that answers with an entry of the store whatever its key.
CacheLookupAnyKey(failed, key) ==
    IF failed THEN [ok |-> FALSE, entry |-> None]
    ELSE [ok |-> TRUE,
          entry |-> IF DOMAIN cache # {} THEN Some(cache[CHOOSE k \in DOMAIN cache : TRUE])
                    ELSE None]

\* Cache::get as the store answers it: Err, or Ok of the entry under the key.
CacheLookup(failed, key) ==
    IF failed THEN [ok |-> FALSE, entry |-> None]
    ELSE [ok |-> TRUE, entry |-> IF key \in DOMAIN cache THEN Some(cache[key]) ELSE None]

\* The store answers the cache.get of request r (or the call fails).
CacheReply(r) ==
    /\ pc[r] = "cache_get"
    /\ got[r] = None
    /\ \E failed \in BOOLEAN : got' = [got EXCEPT ![r] = Some(CacheLookup(failed, cache_key[r]))]
    /\ UNCHANGED <<pc, req, input, target_url, cache_key, probes, results, inflight, fetched, dns,
                   response, out, log, before, cache, wait_until, ttl_var>>

\* A hit that is returned only after check_domain has been called as well.
OnHitAfterCheck(r, cached) ==
    /\ Finish(r, HitResponse(cached))
    /\ log' = [log EXCEPT ![r] = Append(@, Event("check_domain", ""))]

\* lib.rs 59-63: the lookup gave Ok(Some(cached)): the handler returns the hit.
OnHit(r, cached) ==
    /\ Finish(r, HitResponse(cached))
    /\ log' = log

\* A handler that calls check_domain without having looked at the host.
OnMissNoHostCheck(r) ==
    LET host == Unwrap(target_url[r]).host IN
    /\ pc' = [pc EXCEPT ![r] = "check_domain"]
    /\ log' = [log EXCEPT ![r] =
                  Append(@, Event("check_domain", IF host = None THEN "" ELSE Unwrap(host)))]
    /\ UNCHANGED <<out, dns, before>>

\* lib.rs 65-72: the lookup gave no entry: the handler goes on to the host of the
\* url and calls check_domain.
OnMiss(r) ==
    LET host == Unwrap(target_url[r]).host IN
    IF host = None THEN
        /\ Finish(r, HandlerErr("Host is missing."))
        /\ log' = log
    ELSE
        /\ pc' = [pc EXCEPT ![r] = "check_domain"]
        /\ log' = [log EXCEPT ![r] = Append(@, Event("check_domain", Unwrap(host)))]
        /\ UNCHANGED <<out, dns, before>>

\* A handler that gives up the request when the lookup failed (cache.get(..)?).
AfterCacheGetPropagates(r, answer) ==
    IF ~answer.ok THEN
        /\ Finish(r, HandlerErr("cache error"))
        /\ log' = log
    ELSE IF IsSome(answer.entry) THEN OnHit(r, Unwrap(answer.entry))
    ELSE OnMiss(r)

\* lib.rs 59: if let Ok(Some(cached)) = cache.get(..): on Ok(Some(cached)) the
\* handler returns the hit, on Ok(None) and on Err it goes on.
AfterCacheGet(r, answer) ==
    IF answer.ok /\ IsSome(answer.entry) THEN OnHit(r, Unwrap(answer.entry))
    ELSE OnMiss(r)

\* cache.get returns to the handler (lines 59-72).  The answer stays on record
\* while the handler awaits check_domain.
CacheGet(r) ==
    /\ pc[r] = "cache_get"
    /\ IsSome(got[r])
    /\ AfterCacheGet(r, Unwrap(got[r]))
    /\ got' = [got EXCEPT ![r] = IF pc'[r] = "check_domain" THEN @ ELSE None]
    /\ req' = [req EXCEPT ![r] = None]
    /\ UNCHANGED <<input, target_url, cache_key, probes, results, inflight, fetched,
                   response, cache, wait_until, ttl_var>>

\* ------------------------------------------------------------------ check_domain, lines 196-218

\* The DNS endpoint answers the lookup check_domain sent (or the call fails).
DnsReply(r) ==
    /\ pc[r] = "check_domain"
    /\ dns[r] = None
    /\ \E reply \in DnsReplies : dns' = [dns EXCEPT ![r] = Some(reply)]
    /\ UNCHANGED <<pc, req, input, target_url, cache_key, probes, results, inflight, fetched, got,
                   response, out, log, before, cache, wait_until, ttl_var>>

\* A handler that hands the write to the platform twice: the put and a second
\* attempt of it.
ScheduledWithRetry(r, resp) ==
    {[by |-> r, key |-> cache_key[r], response |-> resp],
     [by |-> r, key |-> cache_key[r], response |-> resp, attempt |-> 2]}

\* lib.rs 122-125: the detached futures request r hands to ctx.wait_until: one
\* cache.put of a clone of the response under the cache key.
Scheduled(r, resp) == {[by |-> r, key |-> cache_key[r], response |-> resp]}

\* lib.rs 103-127: the loop is left with the results res: the miss response is
\* built, a clone of it is handed to a detached cache.put, and it is returned.
Respond(r, res, lg) ==
    LET resp == MissResponse(Unwrap(target_url[r]), res, CacheTtl(ttl_var)) IN
    /\ response' = [response EXCEPT ![r] = Some(resp)]
    /\ wait_until' = wait_until \cup Scheduled(r, resp)
    /\ log' = [log EXCEPT ![r] = Append(lg, Event("wait_until", cache_key[r]))]
    /\ inflight' = [inflight EXCEPT ![r] = {}]
    /\ Finish(r, resp)

\* lib.rs 93-101: the loop reaches candidate k (res are the results and lg the
\* calls so far): it starts the probes of ProbesStarted and awaits them, or it is
\* left and the handler runs to its return.
LoopAt(r, k, res, cands, lg) ==
    IF LoopContinues(k, res, cands) THEN
        /\ pc' = [pc EXCEPT ![r] = "probe"]
        /\ inflight' = [inflight EXCEPT ![r] = ProbesStarted(k, Len(cands))]
        /\ log' = [log EXCEPT ![r] =
                      lg \o [i \in 1..Cardinality(ProbesStarted(k, Len(cands))) |->
                                 Event("fetch", cands[k + i - 1].url)]]
        /\ UNCHANGED <<response, out, wait_until, dns, before>>
    ELSE
        Respond(r, res, lg)

\* A handler that also hands the rejection of the domain check to the cache.
AfterCheckDomainCachesRejection(r, res) ==
    IF res.tag = "Panic" THEN
        /\ Finish(r, HandlerPanic)
        /\ UNCHANGED <<probes, inflight, log, response, wait_until>>
    ELSE IF GateRejects(res) THEN
        /\ Finish(r, DomainCheckFailed(res.status))
        /\ wait_until' = wait_until \cup Scheduled(r, DomainCheckFailed(res.status))
        /\ UNCHANGED <<probes, inflight, log, response>>
    ELSE
        /\ probes' = [probes EXCEPT ![r] = Candidates(Unwrap(target_url[r]))]
        /\ LoopAt(r, 1, <<>>, Candidates(Unwrap(target_url[r])), log[r])

\* check_domain returns to the handler (lines 72-91): with res the handler rejects
\* the request, or builds the candidates and enters the probe loop.
AfterCheckDomain(r, res) ==
    IF res.tag = "Panic" THEN
        /\ Finish(r, HandlerPanic)
        /\ UNCHANGED <<probes, inflight, log, response, wait_until>>
    ELSE IF GateRejects(res) THEN
        /\ Finish(r, DomainCheckFailed(res.status))
        /\ UNCHANGED <<probes, inflight, log, response, wait_until>>
    ELSE
        /\ probes' = [probes EXCEPT ![r] = Candidates(Unwrap(target_url[r]))]
        /\ LoopAt(r, 1, <<>>, Candidates(Unwrap(target_url[r])), log[r])

CheckDomainReturn(r) ==
    /\ pc[r] = "check_domain"
    /\ IsSome(dns[r])
    /\ AfterCheckDomain(r, check_domain(Unwrap(dns[r])))
    /\ got' = [got EXCEPT ![r] = None]
    /\ UNCHANGED <<req, input, target_url, cache_key, results, fetched, cache, ttl_var>>

\* ------------------------------------------------------------------ probe, lines 130-194

\* A loop that gives up the request with an error when a probe failed (transport
\* error or timeout) instead of pushing its DOWN result.
ProbeReturnsOrFails(r, i, value, how, lg) ==
    /\ IF how = None \/ ~Unwrap(how).ok
       THEN /\ Finish(r, HandlerErr(value.status_text))
            /\ inflight' = [inflight EXCEPT ![r] = {}]
            /\ log' = [log EXCEPT ![r] = lg]
            /\ UNCHANGED <<results, fetched, response, wait_until>>
       ELSE /\ results' = [results EXCEPT ![r] = Append(@, value)]
            /\ fetched' = [fetched EXCEPT ![r] = Append(@, how)]
            /\ LoopAt(r, Len(results[r]) + 2, Append(results[r], value), probes[r], lg)
    /\ UNCHANGED <<req, input, target_url, cache_key, probes, got, cache, ttl_var>>

\* The probe of candidate i returns value (how: Some(reply) of the HTTP call, None
\* when the delay won): the loop pushes it and goes on; lg are the calls so far.
ProbeReturns(r, i, value, how, lg) ==
    /\ results' = [results EXCEPT ![r] = Append(@, value)]
    /\ fetched' = [fetched EXCEPT ![r] = Append(@, how)]
    /\ IF inflight[r] = {i}
       THEN LoopAt(r, Len(results[r]) + 2, Append(results[r], value), probes[r], lg)
       ELSE /\ inflight' = [inflight EXCEPT ![r] = @ \ {i}]
            /\ log' = [log EXCEPT ![r] = lg]
            /\ UNCHANGED <<pc, response, out, wait_until, dns, before>>
    /\ UNCHANGED <<req, input, target_url, cache_key, probes, got, cache, ttl_var>>

\* A probe that aborts its controller however the select resolved.
ProbeCallsAbortAlways(lg, url, how) == Append(lg, Event("abort", url))

\* lib.rs 177-185: the calls of a handler once the select of its probe of url has
\* resolved (how: Some(reply) of the HTTP call, None when the delay won): the
\* delay future calls controller.abort() when its 60 s are over; when the fetch
\* future wins, the delay future is dropped before it gets there.
ProbeCalls(lg, url, how) == IF how = None THEN Append(lg, Event("abort", url)) ELSE lg

\* The HTTP call of a probe completes before the delay: select yields Left.
ProbeFetchDone(r) ==
    /\ pc[r] = "probe"
    /\ \E i \in inflight[r], reply \in FetchReplies :
        ProbeReturns(r, i, ProbeFetched(probes[r][i].url, probes[r][i].probe_type, reply),
                     Some(reply), ProbeCalls(log[r], probes[r][i].url, Some(reply)))

\* The 60 s delay of a probe completes before the HTTP call: the delay future
\* aborts the controller and select yields Right.
ProbeDelayFired(r) ==
    /\ pc[r] = "probe"
    /\ \E i \in inflight[r] :
        ProbeReturns(r, i, ProbeTimedOut(probes[r][i].url, probes[r][i].probe_type),
                     None, ProbeCalls(log[r], probes[r][i].url, None))

\* ------------------------------------------------------------------ the cache store

\* Cache::put as the store takes it: the entry is stored, or the put fails.
CacheStore(ok, w) ==
    IF ok THEN [k \in DOMAIN cache \cup {w.key} |-> IF k = w.key THEN w.response ELSE cache[k]]
    ELSE cache

\* lib.rs 123-125: a detached cache.put runs, after the handler that scheduled it
\* has returned (the handler does not yield between wait_until and its return);
\* its result is dropped.
CachePut(w) ==
    /\ w \in wait_until
    /\ pc[w.by] = "done"
    /\ \E ok \in BOOLEAN : cache' = CacheStore(ok, w)
    /\ wait_until' = wait_until \ {w}
    /\ UNCHANGED <<reqVars, ttl_var>>

\* The store drops an entry: its max-age has passed.
CacheExpire(key) ==
    /\ key \in DOMAIN cache
    /\ cache' = [k \in DOMAIN cache \ {key} |-> cache[k]]
    /\ UNCHANGED <<reqVars, wait_until, ttl_var>>

\* ------------------------------------------------------------------ specification

Next ==
    \/ \E r \in Requests : FetchStart(r)
    \/ \E r \in Requests : CacheReply(r)
    \/ \E r \in Requests : CacheGet(r)
    \/ \E r \in Requests : DnsReply(r)
    \/ \E r \in Requests : CheckDomainReturn(r)
    \/ \E r \in Requests : ProbeFetchDone(r)
    \/ \E r \in Requests : ProbeDelayFired(r)
    \/ \E w \in wait_until : CachePut(w)
    \/ \E key \in DOMAIN cache : CacheExpire(key)

Spec == Init /\ [][Next]_vars

\* The platform's timers fire: a pending 60 s delay completes.
FairSpec == Spec /\ \A r \in Requests : WF_vars(ProbeDelayFired(r))

\* ------------------------------------------------------------------ observations

\* The calls of kind op that request r has made.
Calls(r, op) == {i \in 1..Len(log[r]) : log[r][i].op = op}

\* The calls lg hold the start of the probe of the url.
ProbedIn(lg, url) == \E i \in 1..Len(lg) : lg[i].op = "fetch" /\ lg[i].arg = url

\* Request r has started the probe of the url.
Probed(r, url) == ProbedIn(log[r], url)

\* Request r has returned a response that carries the X-Worker-Cache value v.
Returned(r, v) ==
    /\ IsSome(out[r])
    /\ Unwrap(out[r]).kind = "response"
    /\ HasHeader(Unwrap(out[r]).headers, "X-Worker-Cache")
    /\ Unwrap(out[r]).headers["X-Worker-Cache"] = v

\* ------------------------------------------------------------------ C1

\* C1: within one request at most one probe is in flight at any time; the probe of
\* candidate i is started only after the probes of all earlier candidates have
\* returned DOWN; and when the Host probe returned UP the Domain candidate is
\* never probed and the results have length exactly 1.
C1_OneProbeAtATime ==
    \A r \in Requests :
        /\ Cardinality(inflight[r]) <= 1
        /\ Cardinality(Calls(r, "fetch")) = Len(results[r]) + Cardinality(inflight[r])
        /\ \A i \in 1..Len(probes[r]) :
               Probed(r, probes[r][i].url) =>
                   \A j \in 1..(i - 1) : j <= Len(results[r]) /\ results[r][j].status = "DOWN"
        /\ (results[r] # <<>> /\ results[r][1].status = "UP") =>
               /\ Len(results[r]) = 1
               /\ inflight[r] = {}
               /\ \A i \in 2..Len(probes[r]) : ~Probed(r, probes[r][i].url)

\* A request with a Domain candidate whose Host probe returned UP has returned.
C1_Witness ==
    \E r \in Requests :
        /\ pc[r] = "done"
        /\ Len(probes[r]) = 2
        /\ results[r] # <<>>
        /\ results[r][1].status = "UP"

\* ------------------------------------------------------------------ C2

\* The FinalResponse that request r has returned as a miss response.
FinalResponse(r) == Unwrap(out[r]).json

\* C2: for every request that has gone through the probe loop, the results of its
\* FinalResponse are a non-empty prefix of the candidates in candidate order
\* (length 1 or 2), every result but the last is DOWN, and if no result is UP
\* every candidate has exactly one result.
C2_ResultsPrefix ==
    \A r \in Requests :
        (pc[r] = "done" /\ probes[r] # <<>>) =>
            LET res == FinalResponse(r).results IN
            /\ Returned(r, "MISS")
            /\ res = results[r]
            /\ Len(res) \in {1, 2}
            /\ Len(res) <= Len(probes[r])
            /\ \A i \in 1..Len(res) :
                   /\ res[i].url = probes[r][i].url
                   /\ res[i].probe_type = probes[r][i].probe_type
            /\ \A i \in 1..(Len(res) - 1) : res[i].status = "DOWN"
            /\ (\A i \in 1..Len(res) : res[i].status # "UP") => Len(res) = Len(probes[r])

\* A request with two candidates has returned two DOWN results, and one with two
\* candidates has returned a single UP result.
C2_Witness ==
    /\ \E r \in Requests :
           /\ pc[r] = "done"
           /\ Len(probes[r]) = 2
           /\ Len(FinalResponse(r).results) = 2
           /\ FinalResponse(r).results[2].status = "DOWN"
    /\ \E r \in Requests :
           /\ pc[r] = "done"
           /\ Len(probes[r]) = 2
           /\ Len(FinalResponse(r).results) = 1

\* ------------------------------------------------------------------ C3

\* The probes of request r that the delay won.
TimedOut(r) == {i \in 1..Len(fetched[r]) : fetched[r][i] = None}

\* The result of every probe that the delay won is exactly DOWN, no status code,
\* the timeout text.
TimeoutMapping ==
    \A r \in Requests : \A i \in TimedOut(r) :
        /\ results[r][i].status = "DOWN"
        /\ results[r][i].status_code = None
        /\ results[r][i].status_text = "Request to origin timed-out after 60 secs."

\* C3: the probes of a request in its probe loop eventually all return, also when
\* their HTTP calls never resolve (the 60 s delay then fires), and the result of a
\* probe that the delay won is exactly status DOWN, status_code absent, the
\* timeout text.
C3_TimeoutReturns ==
    /\ []TimeoutMapping
    /\ \A r \in Requests : (pc[r] = "probe") ~> (pc[r] = "done")

\* A probe that the delay won has returned.
C3_Witness == \E r \in Requests : TimedOut(r) # {}

\* ------------------------------------------------------------------ C4

\* The HTTP call of probe i of request r completed with a response whose status
\* code lies in [200,400).
ResponseInRange(r, i) ==
    /\ IsSome(fetched[r][i])
    /\ Unwrap(fetched[r][i]).ok
    /\ Unwrap(fetched[r][i]).code >= 200
    /\ Unwrap(fetched[r][i]).code < 400

\* C4 as stated: a result is UP iff a response with a code in [200,400) was
\* received, and every other outcome is DOWN with status_code absent and a
\* non-empty status_text.
C4_Original ==
    \A r \in Requests : \A i \in 1..Len(results[r]) :
        /\ results[r][i].status = "UP" <=> ResponseInRange(r, i)
        /\ ~ResponseInRange(r, i) =>
               /\ results[r][i].status = "DOWN"
               /\ results[r][i].status_code = None
               /\ results[r][i].status_text # ""

\* C4 as amended: a result is UP iff a response with a code in [200,400) was
\* received; every received response, UP or DOWN, carries its code as status_code
\* and an empty status_text; a transport error or a timeout is DOWN with
\* status_code absent and a non-empty status_text.
C4_Amended ==
    \A r \in Requests : \A i \in 1..Len(results[r]) :
        LET res == results[r][i]
            how == fetched[r][i]
        IN  /\ res.status \in {"UP", "DOWN"}
            /\ res.status = "UP" <=> ResponseInRange(r, i)
            /\ (IsSome(how) /\ Unwrap(how).ok) =>
                   /\ res.status_code = Some(Unwrap(how).code)
                   /\ res.status_text = ""
            /\ (how = None \/ ~Unwrap(how).ok) =>
                   /\ res.status = "DOWN"
                   /\ res.status_code = None
                   /\ res.status_text # ""

\* A probe has returned DOWN for a response outside [200,400), one for a
\* transport error and one for a timeout.
C4_Witness ==
    \E r \in Requests : \E i \in 1..Len(results[r]) : \E j \in 1..Len(results[r]) :
        /\ IsSome(fetched[r][i]) /\ Unwrap(fetched[r][i]).ok
        /\ results[r][i].status = "DOWN"
        /\ (fetched[r][j] = None \/ ~Unwrap(fetched[r][j]).ok)

\* ------------------------------------------------------------------ C5

\* The handler of request r resumes from its cache lookup in this step.
LookupReturns(r) == pc[r] = "cache_get" /\ pc'[r] # "cache_get"

\* The response request r1 returned is on its way to the store or stored: its
\* background write has not yet run, or its entry is in the store (not expired).
PendingOrStored(r1) ==
    \/ \E w \in wait_until : w.by = r1
    \/ /\ cache_key[r1] \in DOMAIN cache
       /\ cache[cache_key[r1]] = Unwrap(out[r1])

\* C5 as stated: once request r1 has returned a MISS response, a request r2 for
\* the same normalized URL that arrives afterwards, while no entry of r1 has
\* expired, returns HIT with the body computed for r1.
C5_Original ==
    [][\A r1 \in Requests : \A r2 \in Requests :
          (/\ r1 \in before[r2]
           /\ Returned(r1, "MISS")
           /\ cache_key[r1] = cache_key[r2]
           /\ PendingOrStored(r1)
           /\ LookupReturns(r2))
          => /\ Returned(r2, "HIT")'
             /\ Unwrap(out'[r2]).json = Unwrap(out[r1]).json]_vars

\* C5 as amended: a request returns HIT exactly when its cache lookup succeeded
\* and found an entry stored under its normalized URL; the body of the HIT is then
\* identical to the body computed for a MISS response that an earlier request for
\* the same normalized URL returned and whose background write stored that entry.
\* A lookup answered before that write has run, after it failed or after the
\* entry expired finds nothing, and the request computes its own response.
C5_Amended ==
    [][\A r2 \in Requests :
          /\ (pc[r2] = "cache_get" /\ got[r2] = None /\ IsSome(got'[r2])
                  /\ Unwrap(got'[r2]).ok) =>
                 Unwrap(got'[r2]).entry =
                     IF cache_key[r2] \in DOMAIN cache THEN Some(cache[cache_key[r2]]) ELSE None
          /\ LookupReturns(r2) =>
                 LET answer == Unwrap(got[r2]) IN
                 /\ Returned(r2, "HIT")' <=> (answer.ok /\ IsSome(answer.entry))
                 /\ (answer.ok /\ IsSome(answer.entry)) =>
                        /\ Unwrap(out'[r2]).json = Unwrap(answer.entry).json
                        /\ \E r1 \in Requests \ {r2} :
                               /\ Returned(r1, "MISS")
                               /\ cache_key[r1] = cache_key[r2]
                               /\ Unwrap(out[r1]) = Unwrap(answer.entry)]_vars

\* A request has returned HIT with the body of the MISS response another request
\* returned for the same normalized URL.
C5_Witness ==
    \E r1 \in Requests : \E r2 \in Requests :
        /\ Returned(r1, "MISS")
        /\ Returned(r2, "HIT")
        /\ cache_key[r1] = cache_key[r2]
        /\ Unwrap(out[r2]).json = Unwrap(out[r1]).json

\* ------------------------------------------------------------------ C6

\* The handler of request r resumes from check_domain in this step.
CheckReturns(r) == pc[r] = "check_domain" /\ IsSome(dns[r]) /\ pc'[r] # "check_domain"

\* The DNS call succeeded and its body is an object with the u64 Status n.
DnsStatus(reply, n) ==
    /\ reply.sent
    /\ reply.json = "object"
    /\ IsSome(reply.Status)
    /\ Unwrap(reply.Status).u64
    /\ Unwrap(reply.Status).n = n

\* Request r was rejected by the domain check.
DomainCheckRejected(r) ==
    /\ IsSome(out[r])
    /\ Unwrap(out[r]).kind = "response"
    /\ Unwrap(out[r]).status = 400
    /\ StartsWith(Unwrap(out[r]).text, "Request does not pass domain check")

\* Request r has started no probe and scheduled no cache write.
NoProbeNoWrite(r) ==
    /\ Calls(r, "fetch") = {}
    /\ Calls(r, "wait_until") = {}
    /\ inflight[r] = {}
    /\ results[r] = <<>>
    /\ response[r] = None
    /\ \A w \in wait_until : w.by # r

\* C6: when the DNS check call succeeds with a Status n different from 0, the
\* request is answered HTTP 400 with a message that contains n, and that request
\* never starts a probe and never schedules a cache write.
C6_GateFailClosed ==
    /\ [][\A r \in Requests : \A n \in 1..3 :
             (CheckReturns(r) /\ DnsStatus(Unwrap(dns[r]), n)) =>
                 /\ pc'[r] = "done"
                 /\ Unwrap(out'[r]).kind = "response"
                 /\ Unwrap(out'[r]).status = 400
                 /\ Find(Unwrap(out'[r]).text, ToString(n), 1) # 0
                 /\ DomainCheckRejected(r)']_vars
    /\ [](\A r \in Requests : DomainCheckRejected(r) => pc[r] = "done" /\ NoProbeNoWrite(r))

\* A request has been rejected by the domain check.
C6_Witness == \E r \in Requests : DomainCheckRejected(r)

\* ------------------------------------------------------------------ C7

\* The DNS check call failed to execute: a network error, or a body that is
\* malformed JSON.
DnsCallFailed(reply) == ~reply.sent \/ reply.json = "malformed"

\* C7: when the DNS check call fails to execute, the handler goes on exactly as it
\* does for Status 0: the step it takes from check_domain is the step it takes
\* for Ok(0) (candidates generated, the Host probe started), so the response it
\* produces is the one it would have produced for Status 0.
C7_GateFailOpen ==
    [][\A r \in Requests :
          (CheckReturns(r) /\ DnsCallFailed(Unwrap(dns[r]))) =>
              /\ AfterCheckDomain(r, [tag |-> "Ok", status |-> 0])
              /\ pc'[r] = "probe"
              /\ probes'[r] # <<>>
              /\ ProbedIn(log'[r], probes'[r][1].url)]_vars

\* A request whose DNS check call failed to execute is probing its Host candidate.
C7_Witness ==
    \E r \in Requests :
        /\ pc[r] = "probe"
        /\ IsSome(dns[r])
        /\ DnsCallFailed(Unwrap(dns[r]))
        /\ Probed(r, probes[r][1].url)

\* ------------------------------------------------------------------ C8

\* C8: the cache lookup is the first call a handler makes on its collaborators and
\* it makes it once; a request that returned a hit has made no other call: no DNS
\* check (whatever the DNS endpoint would answer), no probe, no cache write.
C8_CacheFirst ==
    \A r \in Requests :
        /\ log[r] # <<>> => log[r][1].op = "cache.get" /\ Calls(r, "cache.get") = {1}
        /\ Returned(r, "HIT") =>
               /\ log[r] = <<Event("cache.get", cache_key[r])>>
               /\ dns[r] = None
               /\ probes[r] = <<>>
               /\ NoProbeNoWrite(r)

\* A request has returned a hit.
C8_Witness == \E r \in Requests : Returned(r, "HIT") /\ pc[r] = "done"

\* ------------------------------------------------------------------ C9

\* The lookup of request r found an entry.
LookupHit(r) == IsSome(got[r]) /\ Unwrap(got[r]).ok /\ IsSome(Unwrap(got[r]).entry)

\* C9: the response returned on a cache hit equals the entry found in status, body
\* and every header except X-Worker-Cache, which is HIT (never MISS), and serving
\* the hit leaves the store unchanged.
C9_HitUnmodified ==
    [][\A r \in Requests :
          (LookupReturns(r) /\ LookupHit(r)) =>
              LET cached == Unwrap(Unwrap(got[r]).entry)
                  served == Unwrap(out'[r])
              IN  /\ served.kind = "response"
                  /\ served.status = cached.status
                  /\ served.text = cached.text
                  /\ served.json = cached.json
                  /\ DOMAIN served.headers = DOMAIN cached.headers \cup {"X-Worker-Cache"}
                  /\ \A h \in DOMAIN cached.headers \ {"X-Worker-Cache"} :
                         served.headers[h] = cached.headers[h]
                  /\ served.headers["X-Worker-Cache"] = "HIT"
                  /\ cache' = cache]_vars

\* A hit has been served from an entry that is still stored with X-Worker-Cache:
\* MISS.
C9_Witness ==
    \E r \in Requests :
        /\ Returned(r, "HIT")
        /\ cache_key[r] \in DOMAIN cache
        /\ cache[cache_key[r]].headers["X-Worker-Cache"] = "MISS"
        /\ cache[cache_key[r]].json = Unwrap(out[r]).json

\* ------------------------------------------------------------------ C10

\* Request r has returned a response that carries a Cache-Control header.
HasCacheControl(r) ==
    /\ IsSome(out[r])
    /\ Unwrap(out[r]).kind = "response"
    /\ HasHeader(Unwrap(out[r]).headers, "Cache-Control")

\* C10 as stated: a response carries Cache-Control only when it is a miss
\* response; a HIT response carries none.
C10_Original ==
    \A r \in Requests :
        /\ HasCacheControl(r) => Returned(r, "MISS")
        /\ Returned(r, "HIT") => ~HasCacheControl(r)

\* C10 as amended: a response carries Cache-Control: max-age=<N> exactly when it
\* carries X-Worker-Cache (MISS or HIT): a miss response carries the configured
\* TTL, a HIT response carries the Cache-Control header of the stored miss
\* response unchanged, and error responses carry neither header.
C10_Amended ==
    \A r \in Requests :
        /\ HasCacheControl(r) <=> (Returned(r, "MISS") \/ Returned(r, "HIT"))
        /\ Returned(r, "MISS") =>
               Unwrap(out[r]).headers["Cache-Control"] = "max-age=" \o ToString(CacheTtl(ttl_var))
        /\ Returned(r, "HIT") =>
               \E q \in Requests \ {r} :
                   /\ Returned(q, "MISS")
                   /\ cache_key[q] = cache_key[r]
                   /\ Unwrap(out[r]).headers["Cache-Control"]
                          = Unwrap(out[q]).headers["Cache-Control"]
        /\ (IsSome(out[r]) /\ Unwrap(out[r]).status # 200) =>
               DOMAIN Unwrap(out[r]).headers = {}

\* A HIT response that carries a Cache-Control header has been returned.
C10_Witness == \E r \in Requests : Returned(r, "HIT") /\ HasCacheControl(r)

\* ------------------------------------------------------------------ C11

\* The detached writes of request r that have not yet run.
PendingWrites(r) == {w \in wait_until : w.by = r}

\* C11: a request schedules its cache write at most once, in the step in which its
\* handler has built the miss response and returns it (the handler never waits
\* for the write); while the write is pending the caller already holds that
\* response; the step in which the write runs, stored or failed, changes nothing
\* of any request (not the response delivered); and a write that has run is gone
\* for good, never scheduled again.
C11_DetachedWrite ==
    /\ [](\A r \in Requests :
             /\ Cardinality(Calls(r, "wait_until")) <= 1
             /\ Cardinality(PendingWrites(r)) <= 1
             /\ \A w \in PendingWrites(r) :
                    /\ pc[r] = "done"
                    /\ Returned(r, "MISS")
                    /\ response[r] = Some(w.response)
                    /\ out[r] = Some(w.response)
                    /\ w.key = cache_key[r])
    /\ [][/\ \A r \in Requests : pc[r] = "done" => pc'[r] = "done" /\ out'[r] = out[r]
          /\ \A w \in wait_until' \ wait_until :
                 /\ pc[w.by] # "done"
                 /\ response[w.by] = None
                 /\ pc'[w.by] = "done"
                 /\ cache' = cache
          /\ \A w \in wait_until \ wait_until' :
                 /\ wait_until' = wait_until \ {w}
                 /\ cache' \in {cache, CacheStore(TRUE, w)}
                 /\ reqVars' = reqVars]_vars

\* One request's write is still pending while it has returned its miss response,
\* and another request has returned its miss response and its write has run
\* without leaving an entry in the store.
C11_Witness ==
    \E r1 \in Requests : \E r2 \in Requests :
        /\ Returned(r1, "MISS") /\ PendingWrites(r1) # {}
        /\ Returned(r2, "MISS") /\ PendingWrites(r2) = {}
        /\ cache = NoCache

\* ------------------------------------------------------------------ C12

\* Probe i of request r failed: the delay won, or the HTTP call gave a transport
\* error.
ProbeFailed(r, i) == fetched[r][i] = None \/ ~Unwrap(fetched[r][i]).ok

\* The status_text says what went wrong: the timeout text, or the fetch error
\* with the error's message.
Descriptive(text) ==
    \/ text = "Request to origin timed-out after 60 secs."
    \/ StartsWith(text, "Fetch to origin error: ") /\ Len(text) > Len("Fetch to origin error: ")

\* C12: a request that has reached the probe loop is probing or has returned, and
\* when it has returned, whatever happened to its probes, it returned HTTP 200
\* with the FinalResponse of its probe results, in which every failed probe
\* (transport error or timeout) is a DOWN entry with a descriptive status_text.
C12_ProbeFailuresAreResults ==
    \A r \in Requests :
        probes[r] # <<>> =>
            /\ pc[r] \in {"probe", "done"}
            /\ Len(fetched[r]) = Len(results[r])
            /\ pc[r] = "done" =>
                   /\ Unwrap(out[r]).kind = "response"
                   /\ Unwrap(out[r]).status = 200
                   /\ FinalResponse(r).requested_url = cache_key[r]
                   /\ FinalResponse(r).results = results[r]
                   /\ results[r] # <<>>
                   /\ \A i \in 1..Len(results[r]) :
                          ProbeFailed(r, i) =>
                              /\ FinalResponse(r).results[i].status = "DOWN"
                              /\ Descriptive(FinalResponse(r).results[i].status_text)

\* A request has returned after its Host probe timed out and its Domain probe
\* met a transport error.
C12_Witness ==
    \E r \in Requests :
        /\ pc[r] = "done"
        /\ Len(results[r]) = 2
        /\ fetched[r][1] = None
        /\ IsSome(fetched[r][2]) /\ ~Unwrap(fetched[r][2]).ok
        /\ Unwrap(out[r]).status = 200

\* ------------------------------------------------------------------ C13

\* The lookup of request r failed: cache.get returned an error.
LookupFailed(r) == IsSome(got[r]) /\ ~Unwrap(got[r]).ok

\* C13: a cache get that returns an error is handled exactly as a miss: the step
\* the handler takes from the failed lookup is the step it takes for Ok(None)
\* (no hit is returned; with a host the DNS check is called, and the request goes
\* on to the probe computation), whether or not an entry is stored under the key.
\* A cache put that fails leaves the store as it was and changes nothing of the
\* response its request returned, not its body, headers or status code.
C13_CacheFailuresSwallowed ==
    [][/\ \A r \in Requests :
             (LookupReturns(r) /\ LookupFailed(r)) =>
                 /\ AfterCacheGet(r, [ok |-> TRUE, entry |-> None])
                 /\ ~Returned(r, "HIT")'
                 /\ IsSome(Unwrap(target_url[r]).host) =>
                        /\ pc'[r] = "check_domain"
                        /\ Calls(r, "check_domain")' # {}
                        /\ out'[r] = None
          /\ \A w \in wait_until \ wait_until' :
                 cache' = cache =>
                     /\ out' = out
                     /\ Unwrap(out'[w.by]) = w.response
                     /\ Unwrap(out'[w.by]).status = 200]_vars

\* A request whose lookup failed although an entry is stored under its key is in
\* its DNS check, and the write of the request that returned that entry has run.
C13_Witness ==
    \E r \in Requests :
        /\ pc[r] = "check_domain"
        /\ LookupFailed(r)
        /\ cache_key[r] \in DOMAIN cache
        /\ Calls(r, "check_domain") # {}
        /\ wait_until = {}

\* ------------------------------------------------------------------ C14

\* The handler of request r has called none of its collaborators: no cache
\* lookup, no DNS check, no probe, no cache write.
CoreNotInvoked(r) ==
    /\ log[r] = <<>>
    /\ got[r] = None
    /\ dns[r] = None
    /\ probes[r] = <<>>
    /\ NoProbeNoWrite(r)

\* C14: a request whose x-api-key header is absent or differs from the secret is
\* answered 401, and a request that carries the secret with a method other than
\* GET or POST is answered 405; a request answered 401 or 405 is one of these,
\* and its handler has invoked nothing of the core: no cache lookup, no DNS
\* check, no probe, no cache write.
C14_GateBeforeCore ==
    \A r \in Requests :
        /\ IsSome(req[r]) =>
               LET key == Unwrap(req[r]).api_key
                   method == Unwrap(req[r]).method
               IN  /\ (key = None \/ Unwrap(key) # "k1") =>
                          /\ pc[r] = "done"
                          /\ out[r] = Some(ResponseError("Unauthorized", 401))
                          /\ CoreNotInvoked(r)
                   /\ (key = Some("k1") /\ method \notin {"GET", "POST"}) =>
                          /\ pc[r] = "done"
                          /\ Unwrap(out[r]).kind = "response"
                          /\ Unwrap(out[r]).status = 405
                          /\ CoreNotInvoked(r)
        /\ (IsSome(out[r]) /\ Unwrap(out[r]).status \in {401, 405}) =>
               /\ IsSome(req[r])
               /\ \/ Unwrap(req[r]).api_key # Some("k1")
                  \/ Unwrap(req[r]).method \notin {"GET", "POST"}
               /\ CoreNotInvoked(r)

\* A request with a wrong key has been answered 401 and a request with the
\* secret and the method PUT has been answered 405.
C14_Witness ==
    \E r1 \in Requests : \E r2 \in Requests :
        /\ req[r1] = Some([api_key |-> Some("k0"), method |-> "GET"])
        /\ Unwrap(out[r1]).status = 401
        /\ req[r2] = Some([api_key |-> Some("k1"), method |-> "PUT"])
        /\ Unwrap(out[r2]).status = 405

\* ------------------------------------------------------------------ C15

\* The raw input begins with an HTTP(S) scheme token.
HasSchemeToken(raw) == StartsWith(raw, "http://") \/ StartsWith(raw, "https://")

\* The raw input is a bare host name: it has no scheme separator and no path.
BareHost(raw) == raw # "" /\ Find(raw, ":", 1) = 0 /\ Find(raw, "/", 1) = 0

\* C15 as stated: for the raw input of every request that reached normalization,
\* the normalized string is the input itself when it begins with "http://" or
\* "https://" and "https://" followed by the input otherwise; every bare host name
\* (also one whose name starts with the letters "http") is parsed as
\* https://<host>, so its request goes on with that URL.
C15_Original ==
    \A r \in Requests :
        input[r] # "" =>
            /\ Normalize(input[r]) =
                   IF HasSchemeToken(input[r]) THEN input[r] ELSE "https://" \o input[r]
            /\ BareHost(input[r]) =>
                   /\ IsSome(target_url[r])
                   /\ cache_key[r] = "https://" \o input[r] \o "/"

\* A request for a bare host name that starts with the letters "http" has ended
\* in the error of the URL parse.
C15_Witness ==
    \E r \in Requests :
        /\ BareHost(input[r])
        /\ StartsWith(input[r], "http")
        /\ pc[r] = "done"
        /\ Unwrap(out[r]).kind = "error"
        /\ target_url[r] = None

\* ------------------------------------------------------------------ C16

\* The URL string scheme://name of the target of request r.
TargetUrlOf(r, name) == Unwrap(target_url[r]).scheme \o "://" \o name

\* C16: the candidates of a request are 1 or 2 in number with pairwise distinct
\* URL strings; the first is the Host candidate scheme://host; a second one
\* exists if and only if the host has a registrable domain whose URL string
\* scheme://domain differs from the Host candidate's, and it is that Domain
\* candidate.  So http://s.x.co.uk has the candidates http://s.x.co.uk and
\* http://x.co.uk, https://x.com only https://x.com, and https://co.uk (a public
\* suffix, no registrable domain) only https://co.uk.
C16_Candidates ==
    \A r \in Requests :
        probes[r] # <<>> =>
            LET host == Unwrap(Unwrap(target_url[r]).host)
                domain == domain_str(host)
            IN  /\ Len(probes[r]) \in {1, 2}
                /\ probes[r][1] = [url |-> TargetUrlOf(r, host), probe_type |-> "host"]
                /\ Len(probes[r]) = 2 <=>
                       (IsSome(domain) /\ TargetUrlOf(r, Unwrap(domain)) # TargetUrlOf(r, host))
                /\ Len(probes[r]) = 2 =>
                       /\ probes[r][2] =
                              [url |-> TargetUrlOf(r, Unwrap(domain)), probe_type |-> "domain"]
                       /\ probes[r][2].url # probes[r][1].url
                /\ cache_key[r] = "http://s.x.co.uk/" =>
                       probes[r] = <<[url |-> "http://s.x.co.uk", probe_type |-> "host"],
                                     [url |-> "http://x.co.uk", probe_type |-> "domain"]>>
                /\ cache_key[r] = "https://x.com/" =>
                       probes[r] = <<[url |-> "https://x.com", probe_type |-> "host"]>>
                /\ cache_key[r] = "https://co.uk/" =>
                       probes[r] = <<[url |-> "https://co.uk", probe_type |-> "host"]>>

\* One request has a Host and a Domain candidate, and another has only the Host
\* candidate because its registrable domain is the host itself.
C16_Witness ==
    \E r1 \in Requests : \E r2 \in Requests :
        /\ Len(probes[r1]) = 2
        /\ Len(probes[r2]) = 1
        /\ domain_str(Unwrap(Unwrap(target_url[r2]).host))
               = Some(Unwrap(Unwrap(target_url[r2]).host))

\* ------------------------------------------------------------------ C17

\* The normalized input of request r fails to parse as a URL.
ParseFails(r) == input[r] # "" /\ ~ParseUrl(Normalize(input[r])).ok

\* The parsed URL of request r has no host.
HostMissing(r) == IsSome(target_url[r]) /\ Unwrap(target_url[r]).host = None

\* Request r has ended in a request-level error: its handler returned Err, no
\* response and no FinalResponse body.
RequestError(r) ==
    /\ pc[r] = "done"
    /\ Unwrap(out[r]).kind = "error"
    /\ Unwrap(out[r]).json = NoJson
    /\ Unwrap(out[r]).headers = NoHeaders

\* C17: a request whose normalized URL fails to parse has ended in a
\* request-level error without any call on a collaborator; a request whose parsed
\* URL has no host is at its cache lookup or has ended in the request-level error
\* "Host is missing."; in both cases no DNS check is issued, no probe is started,
\* no FinalResponse is returned and no cache write is scheduled.  Every
\* request-level error is one of the two.
C17_NoPartialResult ==
    \A r \in Requests :
        /\ ParseFails(r) =>
               /\ RequestError(r)
               /\ log[r] = <<>>
        /\ HostMissing(r) =>
               /\ pc[r] \in {"cache_get", "done"}
               /\ pc[r] = "done" => RequestError(r) /\ Unwrap(out[r]).text = "Host is missing."
        /\ (ParseFails(r) \/ HostMissing(r)) =>
               /\ Calls(r, "check_domain") = {}
               /\ dns[r] = None
               /\ probes[r] = <<>>
               /\ NoProbeNoWrite(r)
        /\ (IsSome(out[r]) /\ Unwrap(out[r]).kind = "error") =>
               (ParseFails(r) \/ HostMissing(r))

\* A request whose URL has no host has ended in the error after its cache lookup,
\* and a request whose URL fails to parse has ended in the error.
C17_Witness ==
    \E r1 \in Requests : \E r2 \in Requests :
        /\ HostMissing(r1) /\ RequestError(r1) /\ Calls(r1, "cache.get") # {}
        /\ ParseFails(r2) /\ RequestError(r2)

\* ------------------------------------------------------------------ C18

\* Request r has signalled the abort of its HTTP call to the url.
Aborted(r, url) == \E i \in Calls(r, "abort") : log[r][i].arg = url

\* The outcomes a probe result shows: a response received (a status code), a
\* transport error (the fetch error text), a timeout (the timeout text).
Outcomes(res) ==
    {o \in {"response", "error", "timeout"} :
        \/ o = "response" /\ IsSome(res.status_code)
        \/ o = "error" /\ StartsWith(res.status_text, "Fetch to origin error: ")
        \/ o = "timeout" /\ res.status_text = "Request to origin timed-out after 60 secs."}

\* C18: every probe makes one HTTP call (no retry) and its result shows exactly
\* one outcome, that of whichever of the HTTP call and the 60 s delay completed
\* first: a response when the call returned one, a transport error when the call
\* failed, the timeout when the delay fired first.  The abort of the HTTP call is
\* signalled if and only if the delay fired first (never for a probe whose call
\* completed first, never while both are pending); a probe whose call completed
\* first never reports the timeout text; and a probe that timed out never reports
\* a fetch error (the failure of the aborted call).
C18_ProbeRace ==
    \A r \in Requests :
        /\ Len(fetched[r]) = Len(results[r])
        /\ Cardinality(Calls(r, "fetch")) = Len(results[r]) + Cardinality(inflight[r])
        /\ \A i \in Calls(r, "fetch") : \A j \in Calls(r, "fetch") :
               log[r][i].arg = log[r][j].arg => i = j
        /\ Cardinality(Calls(r, "abort")) = Cardinality(TimedOut(r))
        /\ \A i \in inflight[r] : ~Aborted(r, probes[r][i].url)
        /\ \A i \in 1..Len(results[r]) :
               LET res == results[r][i]
                   how == fetched[r][i]
               IN  /\ res.url = probes[r][i].url
                   /\ Outcomes(res) =
                          IF how = None THEN {"timeout"}
                          ELSE IF Unwrap(how).ok THEN {"response"} ELSE {"error"}
                   /\ Aborted(r, res.url) <=> how = None
                   /\ IsSome(how) => res.status_text # "Request to origin timed-out after 60 secs."
                   /\ how = None => ~StartsWith(res.status_text, "Fetch to origin error")

\* A request's Host probe timed out (its abort was signalled) and the HTTP call
\* of its Domain probe completed with a response (no abort).
C18_Witness ==
    \E r \in Requests :
        /\ Len(results[r]) = 2
        /\ fetched[r][1] = None
        /\ Aborted(r, results[r][1].url)
        /\ IsSome(fetched[r][2]) /\ Unwrap(fetched[r][2]).ok
        /\ ~Aborted(r, results[r][2].url)

\* ------------------------------------------------------------------ C19

\* Request r has returned the miss response resp of a completed probe loop (HTTP
\* 200, X-Worker-Cache: MISS, its results) after a lookup under the key.
MissOf(r, key, resp) ==
    /\ Returned(r, "MISS")
    /\ out[r] = Some(resp)
    /\ resp.status = 200
    /\ resp.json.results = results[r]
    /\ results[r] # <<>>
    /\ cache_key[r] = key
    /\ log[r][1] = Event("cache.get", key)

\* Request r has returned something else than a miss response: 401, 405, 400, a
\* hit, or no response at all.
NotAMiss(r) == IsSome(out[r]) /\ ~Returned(r, "MISS")

Panicked(r) == IsSome(out[r]) /\ Unwrap(out[r]).kind = "panic"

\* C20 as stated: whatever the DNS endpoint answers (also well-formed JSON that is
\* not an object or has no non-negative integer Status), a request that has
\* called the DNS check is awaiting it, is probing, has returned its miss
\* response, or has been rejected with the 400 domain-check response; its handler
\* never ends in any other way.
C20_Original ==
    \A r \in Requests :
        Calls(r, "check_domain") # {} =>
            /\ pc[r] \in {"check_domain", "probe", "done"}
            /\ pc[r] = "done" => (Returned(r, "MISS") \/ DomainCheckRejected(r))

\* A request whose DNS check was answered has been aborted by a panic: it neither
\* went on to probe nor was it rejected with the 400 response.
C20_Witness ==
    \E r \in Requests :
        /\ Calls(r, "check_domain") # {}
        /\ Panicked(r)
        /\ probes[r] = <<>>
        /\ ~DomainCheckRejected(r)

====
